---- MODULE Spec2Model ----
(***************************************************************************)
(* Head-tracked "window into box" renderer (ARDings/3DWindow).             *)
(*                                                                         *)
(* The model follows the module variant of the main script (the second     *)
(* program text of src/unnamed/part_000, lines 558-1242): the module-level *)
(* variables, the start-button handler of init, the detection callback     *)
(* onFaceResults, the plus/minus handlers of the strength and smoothing    *)
(* controls, and the render tick animate with updateOffAxisProjection.     *)
(*                                                                         *)
(* Numbers.  The script computes with JavaScript numbers.  The model keeps *)
(* every quantity as an integer numerator over a fixed unit:               *)
(*   face centres          1 / CenterUnit   (CenterUnit = 2 * POS)         *)
(*   target, current       1 / POS                                         *)
(*   strength, smoothing   1 / MILLI                                       *)
(*   halfWidth, halfHeight 1 / LEN                                         *)
(*   eye x, y              1 / EyeUnit      (EyeUnit = POS * LEN * MILLI)  *)
(*   left/right/bottom/top 1 / (EyeUnit * NearClipDen * eyeDistance)       *)
(* The solver's products and differences are exact in these units.  The    *)
(* smoothing step rounds its product to the nearest 1/POS, the way the     *)
(* script's arithmetic rounds to the nearest representable number.         *)
(*                                                                         *)
(* Time.  animate compares performance.now() with lastFpsUpdate and uses   *)
(* nothing but their difference; the model keeps that difference, in       *)
(* milliseconds, as sinceFpsUpdate, and each tick adds the time passed     *)
(* since the clock was last read.                                          *)
(*                                                                         *)
(* Specifications.  Spec is the program from its initial state.  The       *)
(* others start from the running program and restrict the steps:           *)
(* SpecTrack (controls at the ends of their ranges), SpecSolver (the       *)
(* solver alone), SpecHold (ticks toward a held target), SpecControls      *)
(* (clicks alone), SpecFps (ticks at varied clock readings).  SpecLoop is  *)
(* the frame loop without an end, under fairness of the frame callback,    *)
(* SpecCamera the start of the program without the controls, SpecCounter   *)
(* the visitor counter of src/js/counter.js on its own.                    *)
(***************************************************************************)
EXTENDS Integers, Sequences, FiniteSets, TLC

VARIABLES
    pc,               \* position of init's start handler
    rafPending,       \* a requestAnimationFrame(animate) callback is queued
    targetX, targetY,
    currentX, currentY,
    smoothingAmount, parallaxStrength,
    smoothingText, strengthText,   \* textContent of the two value elements
    boxGroup,         \* boxGroup.userData; NoBox before createBox
    threeCamera,      \* frustum, position, rotation; NoCamera before the first tick
    ticks,            \* number of animate calls since the initial state
    clicks,           \* number of control clicks since the initial state
    lastSample,       \* history: box centre of the last detection used
    pending,          \* history: detections with a face since the last tick
    tickSamples,      \* history: value of pending consumed by the last tick
    loadingText,      \* textContent of the loading overlay's .loading-text
    initError,        \* history: message of the error init's handler caught
    videoStream,      \* initCamera has attached a stream to the video element
    cameraStarted,    \* initFaceDetection's camera.start() has resolved
    rendered,         \* history: the camera as renderer.render last received it
    frameCount,
    sinceFpsUpdate,   \* last reading of performance.now() minus lastFpsUpdate
    currentFps,
    fpsDivisor,       \* history: the last divisor of the FPS quotient
    constraintIndex,  \* initCamera: position of its loop over constraints
    cameraError,      \* initCamera's local error: message of the last failure
    attempts,         \* history: the getUserMedia calls of initCamera, while
                      \* it runs and after it threw
    counterPc,        \* position of counter.js's initCounter
    counterElement,   \* the page has a counter container element
    numberElement,    \* the page has an element for the number
    sessionCounted,   \* sessionStorage holds the item xrchris_counted
    alreadyCounted,   \* initCounter's local of that name
    requestHit,       \* the url of the fetch carries ?hit=1
    fetches,          \* history: fetches issued since the page was loaded
    lastResponse,     \* history: what the last fetch came back with
    counterText,      \* textContent of the number element
    pageLoads         \* history: loads of the page in this session

vars == <<pc, rafPending, targetX, targetY, currentX, currentY,
          smoothingAmount, parallaxStrength, smoothingText, strengthText,
          boxGroup, threeCamera, ticks, clicks, lastSample, pending,
          tickSamples, loadingText, initError, videoStream, cameraStarted,
          rendered, frameCount, sinceFpsUpdate, currentFps, fpsDivisor,
          constraintIndex, cameraError, attempts,
          counterPc, counterElement, numberElement, sessionCounted,
          alreadyCounted, requestHit, fetches, lastResponse, counterText,
          pageLoads>>

\* the variables written by init's start handler alone
startVars == <<loadingText, initError, videoStream, cameraStarted,
               constraintIndex, cameraError, attempts>>

\* the variables of initCamera's loop
cameraVars == <<constraintIndex, cameraError, attempts>>

\* the variables of animate's FPS bookkeeping
fpsVars == <<frameCount, sinceFpsUpdate, currentFps, fpsDivisor>>

\* the variables of the main script
scriptVars == <<pc, rafPending, targetX, targetY, currentX, currentY,
                smoothingAmount, parallaxStrength, smoothingText, strengthText,
                boxGroup, threeCamera, ticks, clicks, lastSample, pending,
                tickSamples, startVars, fpsVars, rendered>>

\* the variables of the visitor counter (counter.js)
counterVars == <<counterPc, counterElement, numberElement, sessionCounted,
                 alreadyCounted, requestHit, fetches, lastResponse,
                 counterText, pageLoads>>

\* boxGroup before createBox has run
NoBox == [defined |-> FALSE, halfWidth |-> 0, halfHeight |-> 0]

\* threeCamera before updateOffAxisProjection has set it
NoCamera ==
    [ defined |-> FALSE, left |-> 0, right |-> 0, bottom |-> 0, top |-> 0,
      posX |-> 0, posY |-> 0, posZ |-> 0, rotation |-> <<0, 0, 0>> ]

\* no detection with a face has arrived
NoSample == <<>>

\* init's handler has caught no error
NoError == ""

\* the FPS quotient has not been computed
NoDivisor == 0 - 1

\* the number a division by zero gives
Infinity == 0 - 1

------------------------------------------------------------------------------
(* Bounds of the model *)

POS == 1000
MaxTicks == 2
MaxClicks == 2
MaxPending == 2
MaxDetections == 2
SolverGrid == 4
MaxTrackTicks == 2
MaxTrackClicks == 1
MaxHoldTicks == 21
FramePeriod == 16
MaxFpsTicks == 5
MaxControlClicks == 40
LoopTicks == 2
MaxLoads == 3

------------------------------------------------------------------------------
(* Units *)

MILLI == 10 * 10 * 10
HUNDREDTHS == 10 * 10
LEN == 8 * 9
CenterUnit == 2 * POS
EyeUnit == POS * LEN * MILLI

------------------------------------------------------------------------------
(* Program constants *)

NearClipNum == 1
NearClipDen == 10
eyeDistance == 5
BASE_SIZE == 4
AspectW == 1920
AspectH == 1080
InitSmoothing == 150
InitStrength == 200
StrengthStep == 50
StrengthMin == 100
StrengthMax == 2000
SmoothingStep == 10
SmoothingMin == 10
SmoothingMax == 500
FpsInterval == 500
MsPerSecond == 1000
fallbackCount == 10420

------------------------------------------------------------------------------
(* Arithmetic helpers *)

Abs(n) == IF n < 0 THEN -n ELSE n

Max(a, b) == IF a > b THEN a ELSE b

Min(a, b) == IF a < b THEN a ELSE b

\* n / d rounded to the nearest integer (d > 0), halves upward
RoundDiv(n, d) == (2 * n + d) \div (2 * d)

------------------------------------------------------------------------------
(* createBox: the screen half-extents stored in boxGroup.userData *)

CreateBoxHalfWidth == (LEN * BASE_SIZE * AspectW) \div (AspectH * 2)

CreateBoxHalfHeight == (LEN * BASE_SIZE) \div 2

CreateBox ==
    [ defined |-> TRUE, halfWidth |-> CreateBoxHalfWidth,
      halfHeight |-> CreateBoxHalfHeight ]

------------------------------------------------------------------------------
(* onFaceResults *)

\* Variant of Normalize: the 0.5 offset is left out
NormalizeNoOffset(c) == (c * 2 * POS) \div CenterUnit

\* (centre - 0.5) * 2, from centre units to position units
Normalize(c) == ((c - CenterUnit \div 2) * 2 * POS) \div CenterUnit

\* The face centres a detection may carry, as <<xCenter, yCenter>>
Centers ==
    { <<0, 0>>, <<CenterUnit, CenterUnit>>, <<POS, POS>>,
      <<POS \div 2, (3 * POS) \div 2>> }

\* The centres of the detections after the first
ExtraCenters == { <<0, CenterUnit>> }

\* results.detections: zero to MaxDetections detections
DetectionLists ==
    {<<>>} \cup
    { <<first>> \o rest :
        first \in Centers,
        rest \in UNION { [1..n -> ExtraCenters] : n \in 0..(MaxDetections - 1) } }

\* Variant of OnFaceResults: a frame without a face recentres the target
OnFaceResultsRecenter(dets) ==
    /\ pc \in {"Detector", "Running"}
    /\ IF Len(dets) > 0
         THEN /\ pending < MaxPending
              /\ targetX' = Normalize(dets[1][1])
              /\ targetY' = Normalize(dets[1][2])
              /\ lastSample' = dets[1]
              /\ pending' = pending + 1
         ELSE /\ targetX' = 0
              /\ targetY' = 0
              /\ UNCHANGED <<lastSample, pending>>
    /\ UNCHANGED <<pc, rafPending, currentX, currentY, smoothingAmount,
                   parallaxStrength, smoothingText, strengthText, boxGroup,
                   threeCamera, ticks, clicks, tickSamples, startVars, fpsVars, rendered,
                   counterVars>>

\* Variant of OnFaceResults: a sample that finds another one still pending
\* is averaged with it
OnFaceResultsAveraging(dets) ==
    /\ pc \in {"Detector", "Running"}
    /\ IF Len(dets) > 0
         THEN /\ pending < MaxPending
              /\ targetX' = IF pending > 0
                               THEN (targetX + Normalize(dets[1][1])) \div 2
                               ELSE Normalize(dets[1][1])
              /\ targetY' = IF pending > 0
                               THEN (targetY + Normalize(dets[1][2])) \div 2
                               ELSE Normalize(dets[1][2])
              /\ lastSample' = dets[1]
              /\ pending' = pending + 1
         ELSE UNCHANGED <<targetX, targetY, lastSample, pending>>
    /\ UNCHANGED <<pc, rafPending, currentX, currentY, smoothingAmount,
                   parallaxStrength, smoothingText, strengthText, boxGroup,
                   threeCamera, ticks, clicks, tickSamples, startVars, fpsVars, rendered,
                   counterVars>>

\* Variant of OnFaceResults: the first face seen places current on the
\* target at once
OnFaceResultsSnap(dets) ==
    /\ pc \in {"Detector", "Running"}
    /\ IF Len(dets) > 0
         THEN /\ pending < MaxPending
              /\ targetX' = Normalize(dets[1][1])
              /\ targetY' = Normalize(dets[1][2])
              /\ currentX' = IF lastSample = NoSample THEN targetX' ELSE currentX
              /\ currentY' = IF lastSample = NoSample THEN targetY' ELSE currentY
              /\ lastSample' = dets[1]
              /\ pending' = pending + 1
         ELSE UNCHANGED <<targetX, targetY, currentX, currentY, lastSample, pending>>
    /\ UNCHANGED <<pc, rafPending, smoothingAmount, parallaxStrength,
                   smoothingText, strengthText, boxGroup, threeCamera, ticks,
                   clicks, tickSamples, startVars, fpsVars, rendered,
                   counterVars>>

\* Variant of OnFaceResults: the last detection of the list is used
OnFaceResultsLast(dets) ==
    /\ pc \in {"Detector", "Running"}
    /\ IF Len(dets) > 0
         THEN /\ pending < MaxPending
              /\ targetX' = Normalize(dets[Len(dets)][1])
              /\ targetY' = Normalize(dets[Len(dets)][2])
              /\ lastSample' = dets[Len(dets)]
              /\ pending' = pending + 1
         ELSE UNCHANGED <<targetX, targetY, lastSample, pending>>
    /\ UNCHANGED <<pc, rafPending, currentX, currentY, smoothingAmount,
                   parallaxStrength, smoothingText, strengthText, boxGroup,
                   threeCamera, ticks, clicks, tickSamples, startVars, fpsVars,
                   rendered,
                   counterVars>>

OnFaceResults(dets) ==
    /\ pc \in {"Detector", "Running"}
    /\ IF Len(dets) > 0
         THEN /\ pending < MaxPending
              /\ targetX' = Normalize(dets[1][1])
              /\ targetY' = Normalize(dets[1][2])
              /\ lastSample' = dets[1]
              /\ pending' = pending + 1
         ELSE UNCHANGED <<targetX, targetY, lastSample, pending>>
    /\ UNCHANGED <<pc, rafPending, currentX, currentY, smoothingAmount,
                   parallaxStrength, smoothingText, strengthText, boxGroup,
                   threeCamera, ticks, clicks, tickSamples, startVars, fpsVars, rendered,
                   counterVars>>

------------------------------------------------------------------------------
(* setupControls: the float control helper and the two controls *)

\* Number.toFixed(2): the value rounded to two decimals (held in hundredths)
ToFixed2(v) == RoundDiv(v * HUNDREDTHS, MILLI)

\* parseFloat of a two-decimal text
ParseFloat(t) == (t * MILLI) \div HUNDREDTHS

\* Variant of Clamp: only the lower bound is applied
ClampLower(v, min, max) == Max(min, v)

\* Math.max(min, Math.min(max, newVal))
Clamp(v, min, max) == Max(min, Min(max, v))

MinusClick(text, step, min, max) == Clamp(ParseFloat(text) - step, min, max)

PlusClick(text, step, min, max) == Clamp(ParseFloat(text) + step, min, max)

StrengthClick(newVal, limit) ==
    /\ pc = "Running"
    /\ clicks < limit
    /\ clicks' = clicks + 1
    /\ parallaxStrength' = newVal
    /\ strengthText' = ToFixed2(newVal)
    /\ UNCHANGED <<pc, rafPending, targetX, targetY, currentX, currentY,
                   smoothingAmount, smoothingText, boxGroup, threeCamera,
                   ticks, lastSample, pending, tickSamples, startVars, fpsVars, rendered,
                   counterVars>>

StrengthMinus(limit) ==
    StrengthClick(MinusClick(strengthText, StrengthStep, StrengthMin, StrengthMax), limit)

StrengthPlus(limit) ==
    StrengthClick(PlusClick(strengthText, StrengthStep, StrengthMin, StrengthMax), limit)

SmoothingClick(newVal, limit) ==
    /\ pc = "Running"
    /\ clicks < limit
    /\ clicks' = clicks + 1
    /\ smoothingAmount' = newVal
    /\ smoothingText' = ToFixed2(newVal)
    /\ UNCHANGED <<pc, rafPending, targetX, targetY, currentX, currentY,
                   parallaxStrength, strengthText, boxGroup, threeCamera,
                   ticks, lastSample, pending, tickSamples, startVars, fpsVars, rendered,
                   counterVars>>

SmoothingMinus(limit) ==
    SmoothingClick(MinusClick(smoothingText, SmoothingStep, SmoothingMin, SmoothingMax), limit)

SmoothingPlus(limit) ==
    SmoothingClick(PlusClick(smoothingText, SmoothingStep, SmoothingMin, SmoothingMax), limit)

------------------------------------------------------------------------------
(* updateOffAxisProjection *)

\* Variant of EyeX: the mirror negation is left out
EyeXNotMirrored(cx, halfWidth, strength) == cx * halfWidth * strength

\* Variant of EyeX: the strength multiplier is left out
EyeXFullStrength(cx, halfWidth, strength) == (0 - cx) * halfWidth * MILLI

\* eyeX = -currentX * halfWidth * parallaxStrength
EyeX(cx, halfWidth, strength) == (0 - cx) * halfWidth * strength

\* eyeY = currentY * halfHeight * parallaxStrength
EyeY(cy, halfHeight, strength) == cy * halfHeight * strength

\* Variant of FrustumEdge: the symmetric frustum, the eye is not subtracted
FrustumEdgeSymmetric(screenEdge, eye) == screenEdge * POS * MILLI * NearClipNum

\* Variant of FrustumEdge: the edge's sign is lost
FrustumEdgeUnsigned(screenEdge, eye) ==
    ((IF screenEdge < 0 THEN 0 - screenEdge ELSE screenEdge) * POS * MILLI - eye)
        * NearClipNum

\* (screenEdge - eye) * nearClip / eyeDistance; screenEdge is in LEN units
FrustumEdge(screenEdge, eye) == (screenEdge * POS * MILLI - eye) * NearClipNum

\* Variant of UpdateOffAxisProjection: the camera stays at z = 0, where
\* initThreeJS put it
UpdateOffAxisProjectionAtOrigin(cam, box, cx, cy, strength) ==
    IF ~box.defined THEN cam
    ELSE LET eyeX == EyeX(cx, box.halfWidth, strength)
             eyeY == EyeY(cy, box.halfHeight, strength)
         IN  [ defined  |-> TRUE,
               left     |-> FrustumEdge(0 - box.halfWidth, eyeX),
               right    |-> FrustumEdge(box.halfWidth, eyeX),
               bottom   |-> FrustumEdge(0 - box.halfHeight, eyeY),
               top      |-> FrustumEdge(box.halfHeight, eyeY),
               posX     |-> eyeX,
               posY     |-> eyeY,
               posZ     |-> 0,
               rotation |-> <<0, 0, 0>> ]

\* Variant of UpdateOffAxisProjection: the camera is turned toward the
\* screen's centre, its rotation follows the eye
UpdateOffAxisProjectionLookAt(cam, box, cx, cy, strength) ==
    IF ~box.defined THEN cam
    ELSE LET eyeX == EyeX(cx, box.halfWidth, strength)
             eyeY == EyeY(cy, box.halfHeight, strength)
         IN  [ defined  |-> TRUE,
               left     |-> FrustumEdge(0 - box.halfWidth, eyeX),
               right    |-> FrustumEdge(box.halfWidth, eyeX),
               bottom   |-> FrustumEdge(0 - box.halfHeight, eyeY),
               top      |-> FrustumEdge(box.halfHeight, eyeY),
               posX     |-> eyeX,
               posY     |-> eyeY,
               posZ     |-> eyeDistance,
               rotation |-> <<eyeY, 0 - eyeX, 0>> ]

\* Variant of UpdateOffAxisProjection: the eye's displacement is added to
\* the position the camera already has
UpdateOffAxisProjectionAccumulating(cam, box, cx, cy, strength) ==
    IF ~box.defined THEN cam
    ELSE LET eyeX == cam.posX + EyeX(cx, box.halfWidth, strength)
             eyeY == cam.posY + EyeY(cy, box.halfHeight, strength)
         IN  [ defined  |-> TRUE,
               left     |-> FrustumEdge(0 - box.halfWidth, eyeX),
               right    |-> FrustumEdge(box.halfWidth, eyeX),
               bottom   |-> FrustumEdge(0 - box.halfHeight, eyeY),
               top      |-> FrustumEdge(box.halfHeight, eyeY),
               posX     |-> eyeX,
               posY     |-> eyeY,
               posZ     |-> eyeDistance,
               rotation |-> <<0, 0, 0>> ]

UpdateOffAxisProjection(cam, box, cx, cy, strength) ==
    IF ~box.defined THEN cam
    ELSE LET eyeX == EyeX(cx, box.halfWidth, strength)
             eyeY == EyeY(cy, box.halfHeight, strength)
         IN  [ defined  |-> TRUE,
               left     |-> FrustumEdge(0 - box.halfWidth, eyeX),
               right    |-> FrustumEdge(box.halfWidth, eyeX),
               bottom   |-> FrustumEdge(0 - box.halfHeight, eyeY),
               top      |-> FrustumEdge(box.halfHeight, eyeY),
               posX     |-> eyeX,
               posY     |-> eyeY,
               posZ     |-> eyeDistance,
               rotation |-> <<0, 0, 0>> ]

------------------------------------------------------------------------------
(* animate *)

\* Variant of Smooth: the factor is read in hundredths
SmoothPercent(cur, tgt, s) == cur + RoundDiv((tgt - cur) * s, HUNDREDTHS)

\* Variant of Smooth: the difference is taken the wrong way round
SmoothAway(cur, tgt, s) == cur + RoundDiv((cur - tgt) * s, MILLI)

\* current += (target - current) * smoothingAmount
Smooth(cur, tgt, s) == cur + RoundDiv((tgt - cur) * s, MILLI)

\* Variant of FpsWindowFull: every tick closes the window
FpsWindowFullAlways(elapsed) == elapsed >= 0

\* now - lastFpsUpdate >= 500
FpsWindowFull(elapsed) == elapsed >= FpsInterval

\* Math.round(frameCount * 1000 / (now - lastFpsUpdate))
RoundFps(count, elapsed) ==
    IF elapsed = 0 THEN Infinity ELSE RoundDiv(count * MsPerSecond, elapsed)

\* The FPS bookkeeping of one tick, elapsed = now - lastFpsUpdate
CountFrame(elapsed) ==
    IF FpsWindowFull(elapsed)
      THEN /\ currentFps' = RoundFps(frameCount + 1, elapsed)
           /\ fpsDivisor' = elapsed
           /\ frameCount' = 0
           /\ sinceFpsUpdate' = 0
      ELSE /\ frameCount' = frameCount + 1
           /\ sinceFpsUpdate' = elapsed
           /\ UNCHANGED <<currentFps, fpsDivisor>>

\* Variant of Animate: the solver runs before the smoothing step
AnimateSolveFirst(box, count, dt) ==
    /\ rafPending' = TRUE
    /\ threeCamera' = UpdateOffAxisProjection(threeCamera, box, currentX, currentY,
                                              parallaxStrength)
    /\ currentX' = Smooth(currentX, targetX, smoothingAmount)
    /\ currentY' = Smooth(currentY, targetY, smoothingAmount)
    /\ rendered' = threeCamera'
    /\ ticks' = count
    /\ tickSamples' = pending
    /\ pending' = 0
    /\ CountFrame(sinceFpsUpdate + dt)

\* Variant of Animate: the next frame is requested only while the window
\* of the FPS counter is open
AnimateUntilFps(box, count, dt) ==
    /\ rafPending' = ~FpsWindowFull(sinceFpsUpdate + dt)
    /\ currentX' = Smooth(currentX, targetX, smoothingAmount)
    /\ currentY' = Smooth(currentY, targetY, smoothingAmount)
    /\ threeCamera' = UpdateOffAxisProjection(threeCamera, box, currentX', currentY',
                                              parallaxStrength)
    /\ rendered' = threeCamera'
    /\ ticks' = count
    /\ tickSamples' = pending
    /\ pending' = 0
    /\ CountFrame(sinceFpsUpdate + dt)

\* One call of animate: count is the new tick count, dt the time since the
\* clock was last read
Animate(box, count, dt) ==
    /\ rafPending' = TRUE
    /\ currentX' = Smooth(currentX, targetX, smoothingAmount)
    /\ currentY' = Smooth(currentY, targetY, smoothingAmount)
    /\ threeCamera' = UpdateOffAxisProjection(threeCamera, box, currentX', currentY',
                                              parallaxStrength)
    /\ rendered' = threeCamera'
    /\ ticks' = count
    /\ tickSamples' = pending
    /\ pending' = 0
    /\ CountFrame(sinceFpsUpdate + dt)

\* The time between two readings of the clock at the display's refresh rate
FrameSteps == {FramePeriod}

\* The queued callback runs: animate as the frame callback
AnimateFrame(count, steps) ==
    /\ pc = "Running"
    /\ rafPending
    /\ \E dt \in steps : Animate(boxGroup, count, dt)
    /\ UNCHANGED <<pc, targetX, targetY, smoothingAmount, parallaxStrength,
                   smoothingText, strengthText, boxGroup, clicks, lastSample,
                   startVars,
                   counterVars>>

Tick(limit, steps) ==
    /\ ticks < limit
    /\ AnimateFrame(ticks + 1, steps)

------------------------------------------------------------------------------
(* init: the start button's click handler *)

\* 'Error: ' + error.message
ErrorText(message) == <<"Error: ", message>>

\* The messages of the errors getUserMedia and initFaceDetection may throw
CameraErrors == {"Permission denied", "Requested device not found"}

DetectorErrors == {"Failed to fetch"}

\* initCamera's constraints, in the order of its list
constraints ==
    << "width 1280, height 720, facingMode user", "facingMode user", "video true" >>

StartClick ==
    /\ pc = "Idle"
    /\ pc' = "Camera"
    /\ loadingText' = <<"Initializing Camera...">>
    /\ constraintIndex' = 1
    /\ cameraError' = NoError
    /\ attempts' = <<>>
    /\ UNCHANGED <<rafPending, targetX, targetY, currentX, currentY,
                   smoothingAmount, parallaxStrength, smoothingText,
                   strengthText, boxGroup, threeCamera, ticks, clicks,
                   lastSample, pending, tickSamples, initError, videoStream,
                   cameraStarted, fpsVars, rendered,
                   counterVars>>

\* Variant of CameraDone: a failure of initCamera does not stop the handler
CameraDoneLenient(ok, message) ==
    /\ pc = "Camera"
    /\ pc' = "Detector"
    /\ videoStream' = ok
    /\ loadingText' = <<"Loading Face Detection...">>
    /\ constraintIndex' = 0
    /\ cameraError' = NoError
    /\ attempts' = <<>>
    /\ UNCHANGED <<rafPending, targetX, targetY, currentX, currentY,
                   smoothingAmount, parallaxStrength, smoothingText,
                   strengthText, boxGroup, threeCamera, ticks, clicks,
                   lastSample, pending, tickSamples, initError, cameraStarted,
                   fpsVars, rendered,
                   counterVars>>

\* Variant of CameraDone: the error of the first failure is kept
CameraDoneFirstError(ok, message) ==
    /\ pc = "Camera"
    /\ IF ok
         THEN /\ pc' = "Detector"
              /\ videoStream' = TRUE
              /\ loadingText' = <<"Loading Face Detection...">>
              /\ constraintIndex' = 0
              /\ cameraError' = NoError
              /\ attempts' = <<>>
              /\ UNCHANGED initError
         ELSE /\ attempts' = Append(attempts, <<constraints[constraintIndex], message>>)
              /\ cameraError' = IF cameraError = NoError THEN message ELSE cameraError
              /\ IF constraintIndex < Len(constraints)
                   THEN /\ constraintIndex' = constraintIndex + 1
                        /\ UNCHANGED <<pc, initError, loadingText>>
                   ELSE /\ pc' = "Error"
                        /\ initError' = cameraError'
                        /\ loadingText' = ErrorText(cameraError')
                        /\ UNCHANGED constraintIndex
              /\ UNCHANGED videoStream
    /\ UNCHANGED <<rafPending, targetX, targetY, currentX, currentY,
                   smoothingAmount, parallaxStrength, smoothingText,
                   strengthText, boxGroup, threeCamera, ticks, clicks,
                   lastSample, pending, tickSamples, cameraStarted, fpsVars,
                   rendered,
                   counterVars>>

\* A getUserMedia call of initCamera settles: with a stream (ok), after
\* which initCamera returns and its locals are gone, or with an error of
\* the message, after which the loop goes on to the next constraint or,
\* past the last one, initCamera throws and init's handler catches
CameraDone(ok, message) ==
    /\ pc = "Camera"
    /\ IF ok
         THEN /\ pc' = "Detector"
              /\ videoStream' = TRUE
              /\ loadingText' = <<"Loading Face Detection...">>
              /\ constraintIndex' = 0
              /\ cameraError' = NoError
              /\ attempts' = <<>>
              /\ UNCHANGED initError
         ELSE /\ attempts' = Append(attempts, <<constraints[constraintIndex], message>>)
              /\ cameraError' = message
              /\ IF constraintIndex < Len(constraints)
                   THEN /\ constraintIndex' = constraintIndex + 1
                        /\ UNCHANGED <<pc, initError, loadingText>>
                   ELSE /\ pc' = "Error"
                        /\ initError' = cameraError'
                        /\ loadingText' = ErrorText(cameraError')
                        /\ UNCHANGED constraintIndex
              /\ UNCHANGED videoStream
    /\ UNCHANGED <<rafPending, targetX, targetY, currentX, currentY,
                   smoothingAmount, parallaxStrength, smoothingText,
                   strengthText, boxGroup, threeCamera, ticks, clicks,
                   lastSample, pending, tickSamples, cameraStarted, fpsVars,
                   rendered,
                   counterVars>>

\* Variant of DetectorDone: the failure is shown, and the handler goes on
\* to initThreeJS() and animate()
DetectorDoneUnguarded(ok, message) ==
    /\ pc = "Detector"
    /\ pc' = "Running"
    /\ cameraStarted' = ok
    /\ initError' = IF ok THEN initError ELSE message
    /\ loadingText' = IF ok THEN loadingText ELSE ErrorText(message)
    /\ boxGroup' = CreateBox
    /\ \E dt \in FrameSteps : Animate(boxGroup', ticks + 1, dt)
    /\ UNCHANGED <<targetX, targetY, smoothingAmount, parallaxStrength,
                   smoothingText, strengthText, clicks, lastSample,
                   videoStream, cameraVars,
                   counterVars>>

\* await initFaceDetection() settles; on success initThreeJS() and animate()
DetectorDone(ok, message) ==
    /\ pc = "Detector"
    /\ IF ok
         THEN /\ pc' = "Running"
              /\ cameraStarted' = TRUE
              /\ boxGroup' = CreateBox
              /\ \E dt \in FrameSteps : Animate(boxGroup', ticks + 1, dt)
              /\ UNCHANGED <<targetX, targetY, smoothingAmount, parallaxStrength,
                             smoothingText, strengthText, clicks, lastSample,
                             loadingText, initError, videoStream, cameraVars,
                             counterVars>>
         ELSE /\ pc' = "Error"
              /\ initError' = message
              /\ loadingText' = ErrorText(message)
              /\ UNCHANGED <<rafPending, targetX, targetY, currentX, currentY,
                             smoothingAmount, parallaxStrength, smoothingText,
                             strengthText, boxGroup, threeCamera, ticks, clicks,
                             lastSample, pending, tickSamples, videoStream,
                             cameraStarted, cameraVars, fpsVars, rendered,
                             counterVars>>

------------------------------------------------------------------------------
(* counter.js: the visitor counter *)

\* no fetch has come back
NoResponse == [kind |-> "none", count |-> 0]

\* the number element shows no number
NoText == <<>>

\* What a fetch can come back with: a rejected fetch, a response that is
\* not ok, a body with success false, a body with success true and a count
Responses ==
    { [kind |-> k, count |-> 0] : k \in {"network", "status", "failure"} }
        \cup { [kind |-> "count", count |-> n] : n \in {0, fallbackCount + 1} }

\* the value fetchCount returns when it caught an error
Null == 0 - 1

\* fetchCount's return value for a response: data.count, or null from the catch
FetchCount(response) == IF response.kind = "count" THEN response.count ELSE Null

\* count.toLocaleString('de-DE'): the digits in groups of three, which the
\* text separates by full stops
RECURSIVE ToLocaleStringDe(_)
ToLocaleStringDe(n) ==
    IF n < MILLI THEN <<n>> ELSE Append(ToLocaleStringDe(n \div MILLI), n % MILLI)

\* updateCounterDisplay: the text of the number element afterwards
UpdateCounterDisplay(count) ==
    IF ~numberElement THEN counterText ELSE ToLocaleStringDe(count)

\* DOMContentLoaded: initCounter up to its await of fetchCount
InitCounter ==
    /\ counterPc = "Loading"
    /\ IF ~counterElement
         THEN /\ counterPc' = "Done"
              /\ UNCHANGED <<alreadyCounted, requestHit, fetches>>
         ELSE /\ alreadyCounted' = sessionCounted
              /\ requestHit' = ~alreadyCounted'
              /\ fetches' = fetches + 1
              /\ counterPc' = "Fetching"
    /\ UNCHANGED <<counterElement, numberElement, sessionCounted, lastResponse,
                   counterText, pageLoads, scriptVars>>

\* Variant of FetchSettled: the session is marked whatever fetchCount returned
FetchSettledAlwaysMarks(response) ==
    /\ counterPc = "Fetching"
    /\ counterPc' = "Done"
    /\ lastResponse' = response
    /\ LET count == FetchCount(response)
       IN  /\ counterText' = UpdateCounterDisplay(IF count # Null THEN count
                                                   ELSE fallbackCount)
           /\ sessionCounted' = (sessionCounted \/ ~alreadyCounted)
    /\ UNCHANGED <<counterElement, numberElement, alreadyCounted, requestHit,
                   fetches, pageLoads, scriptVars>>

\* The fetch settles: the rest of fetchCount and of initCounter
FetchSettled(response) ==
    /\ counterPc = "Fetching"
    /\ counterPc' = "Done"
    /\ lastResponse' = response
    /\ LET count == FetchCount(response)
       IN  IF count # Null
             THEN /\ counterText' = UpdateCounterDisplay(count)
                  /\ sessionCounted' = (sessionCounted \/ ~alreadyCounted)
             ELSE /\ counterText' = UpdateCounterDisplay(fallbackCount)
                  /\ UNCHANGED sessionCounted
    /\ UNCHANGED <<counterElement, numberElement, alreadyCounted, requestHit,
                   fetches, pageLoads, scriptVars>>

\* The page is loaded again in the same tab: the script starts over, the
\* session storage is kept
Reload ==
    /\ counterPc = "Done"
    /\ pageLoads < MaxLoads
    /\ pageLoads' = pageLoads + 1
    /\ counterPc' = "Loading"
    /\ counterText' = NoText
    /\ fetches' = 0
    /\ alreadyCounted' = FALSE
    /\ requestHit' = FALSE
    /\ UNCHANGED <<counterElement, numberElement, sessionCounted, lastResponse,
                   scriptVars>>

\* The counter before DOMContentLoaded of the session's first page load
CounterLoading ==
    /\ counterPc = "Loading"
    /\ alreadyCounted = FALSE
    /\ requestHit = FALSE
    /\ fetches = 0
    /\ lastResponse = NoResponse
    /\ counterText = NoText
    /\ pageLoads = 1

------------------------------------------------------------------------------
(* The program *)

\* The main script after its module-level statements
InitScript ==
    /\ pc = "Idle"
    /\ rafPending = FALSE
    /\ targetX = 0
    /\ targetY = 0
    /\ currentX = 0
    /\ currentY = 0
    /\ smoothingAmount = InitSmoothing
    /\ parallaxStrength = InitStrength
    /\ smoothingText = ToFixed2(InitSmoothing)
    /\ strengthText = ToFixed2(InitStrength)
    /\ boxGroup = NoBox
    /\ threeCamera = NoCamera
    /\ ticks = 0
    /\ clicks = 0
    /\ lastSample = NoSample
    /\ pending = 0
    /\ tickSamples = 0
    /\ loadingText = <<>>
    /\ initError = NoError
    /\ videoStream = FALSE
    /\ cameraStarted = FALSE
    /\ constraintIndex = 0
    /\ cameraError = NoError
    /\ attempts = <<>>
    /\ rendered = NoCamera
    /\ frameCount = 0
    /\ sinceFpsUpdate = 0
    /\ currentFps = 0
    /\ fpsDivisor = NoDivisor

\* The page as loaded, with both counter elements, in a fresh session
Init ==
    /\ InitScript
    /\ CounterLoading
    /\ counterElement = TRUE
    /\ numberElement = TRUE
    /\ sessionCounted = FALSE

Next ==
    \/ StartClick
    \/ \E ok \in BOOLEAN, message \in CameraErrors : CameraDone(ok, message)
    \/ \E ok \in BOOLEAN, message \in DetectorErrors : DetectorDone(ok, message)
    \/ \E dets \in DetectionLists : OnFaceResults(dets)
    \/ StrengthMinus(MaxClicks)
    \/ StrengthPlus(MaxClicks)
    \/ SmoothingMinus(MaxClicks)
    \/ SmoothingPlus(MaxClicks)
    \/ Tick(MaxTicks, FrameSteps)

Spec == Init /\ [][Next]_vars

------------------------------------------------------------------------------
(* The values a control can hold: its range in steps from the lower bound *)

ControlValues(min, max, step) == { v \in min..max : (v - min) % step = 0 }

AllStrength == ControlValues(StrengthMin, StrengthMax, StrengthStep)

AllSmoothing == ControlValues(SmoothingMin, SmoothingMax, SmoothingStep)

\* The running program before any face was seen: target and current are
\* still (0,0) and the controls hold the given values
RunningAt(smoothing, strength, box, cam) ==
    /\ pc = "Running"
    /\ rafPending = TRUE
    /\ targetX = 0
    /\ targetY = 0
    /\ currentX = 0
    /\ currentY = 0
    /\ smoothingAmount = smoothing
    /\ parallaxStrength = strength
    /\ smoothingText = ToFixed2(smoothing)
    /\ strengthText = ToFixed2(strength)
    /\ boxGroup = box
    /\ threeCamera = cam
    /\ ticks = 0
    /\ clicks = 0
    /\ lastSample = NoSample
    /\ pending = 0
    /\ tickSamples = 0
    /\ loadingText = <<"Loading Face Detection...">>
    /\ initError = NoError
    /\ videoStream = TRUE
    /\ cameraStarted = TRUE
    /\ constraintIndex = 0
    /\ cameraError = NoError
    /\ attempts = <<>>
    /\ rendered = cam
    /\ frameCount = 0
    /\ sinceFpsUpdate = 0
    /\ currentFps = 0
    /\ fpsDivisor = NoDivisor
    /\ CounterLoading
    /\ counterElement = TRUE
    /\ numberElement = TRUE
    /\ sessionCounted = FALSE

------------------------------------------------------------------------------
(* Tracking: detections, clicks and ticks of the running program, started  *)
(* with each control at an end of its range                                *)

TrackSmoothing == {SmoothingMin, SmoothingMax}

TrackStrength == {StrengthMin, StrengthMax}

InitTrack ==
    \E smoothing \in TrackSmoothing, strength \in TrackStrength :
        RunningAt(smoothing, strength, CreateBox,
                  UpdateOffAxisProjection(NoCamera, CreateBox, 0, 0, strength))

NextTrack ==
    \/ \E dets \in DetectionLists : OnFaceResults(dets)
    \/ StrengthMinus(MaxTrackClicks)
    \/ StrengthPlus(MaxTrackClicks)
    \/ SmoothingMinus(MaxTrackClicks)
    \/ SmoothingPlus(MaxTrackClicks)
    \/ Tick(MaxTrackTicks, FrameSteps)

SpecTrack == InitTrack /\ [][NextTrack]_vars

------------------------------------------------------------------------------
(* The solver on its own: updateOffAxisProjection applied to positions of  *)
(* a grid over [-1,1] x [-1,1], for every strength the control can hold;   *)
(* the camera is unset until the solver has run                            *)

\* the screen of the end-to-end example: halfWidth 2.0, halfHeight 1.125
ExampleBox == [defined |-> TRUE, halfWidth |-> 2 * LEN, halfHeight |-> (9 * LEN) \div 8]

Boxes == {CreateBox, ExampleBox}

SolverPositions ==
    { k * (POS \div SolverGrid) : k \in (0 - SolverGrid)..SolverGrid }
        \cup {0 - POS, POS}

InitSolver ==
    \E strength \in AllStrength, box \in Boxes :
        RunningAt(InitSmoothing, strength, box, NoCamera)

SolveAt(cx, cy) ==
    /\ pc = "Running"
    /\ currentX' = cx
    /\ currentY' = cy
    /\ threeCamera' = UpdateOffAxisProjection(threeCamera, boxGroup, cx, cy,
                                              parallaxStrength)
    /\ UNCHANGED <<pc, rafPending, targetX, targetY, smoothingAmount,
                   parallaxStrength, smoothingText, strengthText, boxGroup,
                   ticks, clicks, lastSample, pending, tickSamples, startVars, fpsVars, rendered,
                   counterVars>>

NextSolver == \E cx \in SolverPositions, cy \in SolverPositions : SolveAt(cx, cy)

SpecSolver == InitSolver /\ [][NextSolver]_vars

------------------------------------------------------------------------------
(* Smoothing toward a held target: only render ticks, from current x = 0   *)
(* and any current y of the grid, for every factor the control can hold    *)

HoldPositions == {0 - POS, 0 - (POS \div 2), 0, POS \div 2, POS}

InitHold ==
    /\ pc = "Running"
    /\ rafPending = TRUE
    /\ targetX \in HoldPositions
    /\ targetY \in HoldPositions
    /\ currentX = 0
    /\ currentY \in HoldPositions
    /\ smoothingAmount \in AllSmoothing
    /\ parallaxStrength = InitStrength
    /\ smoothingText = ToFixed2(smoothingAmount)
    /\ strengthText = ToFixed2(InitStrength)
    /\ boxGroup = CreateBox
    /\ threeCamera = UpdateOffAxisProjection(NoCamera, CreateBox, currentX, currentY,
                                             InitStrength)
    /\ ticks = 0
    /\ clicks = 0
    /\ lastSample = NoSample
    /\ pending = 0
    /\ tickSamples = 0
    /\ loadingText = <<"Loading Face Detection...">>
    /\ initError = NoError
    /\ videoStream = TRUE
    /\ cameraStarted = TRUE
    /\ constraintIndex = 0
    /\ cameraError = NoError
    /\ attempts = <<>>
    /\ rendered = threeCamera
    /\ frameCount = 0
    /\ sinceFpsUpdate = 0
    /\ currentFps = 0
    /\ fpsDivisor = NoDivisor
    /\ CounterLoading
    /\ counterElement = TRUE
    /\ numberElement = TRUE
    /\ sessionCounted = FALSE

NextHold == Tick(MaxHoldTicks, FrameSteps)

SpecHold == InitHold /\ [][NextHold]_vars

------------------------------------------------------------------------------
(* The controls on their own: plus and minus clicks from the initial       *)
(* settings, enough of them to run each control into either end            *)

InitControls ==
    RunningAt(InitSmoothing, InitStrength, CreateBox,
              UpdateOffAxisProjection(NoCamera, CreateBox, 0, 0, InitStrength))

NextControls ==
    \/ StrengthMinus(MaxControlClicks)
    \/ StrengthPlus(MaxControlClicks)
    \/ SmoothingMinus(MaxControlClicks)
    \/ SmoothingPlus(MaxControlClicks)

SpecControls == InitControls /\ [][NextControls]_vars

------------------------------------------------------------------------------
(* The FPS counter: ticks whose clock readings are any of FpsSteps apart,  *)
(* the same reading twice included                                         *)

FpsSteps == {0, FramePeriod, FpsInterval \div 2, FpsInterval, 2 * FpsInterval}

InitFps == InitControls

NextFps == Tick(MaxFpsTicks, FpsSteps)

SpecFps == InitFps /\ [][NextFps]_vars

------------------------------------------------------------------------------
(* The frame loop without an end: the program from its initial state, one  *)
(* face in view, the frame callback run by the host whenever it is queued; *)
(* the tick count is kept modulo LoopTicks                                 *)

LoopDetections == {<<>>, << <<0, CenterUnit>> >>}

TickLoop == AnimateFrame((ticks + 1) % LoopTicks, FrameSteps)

NextLoop ==
    \/ StartClick
    \/ \E ok \in BOOLEAN, message \in CameraErrors : CameraDone(ok, message)
    \/ \E ok \in BOOLEAN, message \in DetectorErrors : DetectorDone(ok, message)
    \/ \E dets \in LoopDetections : OnFaceResults(dets)
    \/ TickLoop

\* requestAnimationFrame: the host runs a queued frame callback
SpecLoop == Init /\ [][NextLoop]_vars /\ WF_vars(TickLoop)

------------------------------------------------------------------------------
(* The visitor counter on its own: page loads in one session, on a page    *)
(* with or without the counter's elements, in a session already counted    *)
(* or not, the fetch coming back with any of Responses                     *)

InitCounterPage ==
    /\ InitScript
    /\ CounterLoading
    /\ counterElement \in BOOLEAN
    /\ numberElement \in BOOLEAN
    /\ sessionCounted \in BOOLEAN

NextCounter ==
    \/ InitCounter
    \/ \E response \in Responses : FetchSettled(response)
    \/ Reload

SpecCounter == InitCounterPage /\ [][NextCounter]_vars

------------------------------------------------------------------------------
(* The start of the program without the controls: the start handler with   *)
(* every outcome of each getUserMedia call, detections and ticks           *)

NextCamera ==
    \/ StartClick
    \/ \E ok \in BOOLEAN, message \in CameraErrors : CameraDone(ok, message)
    \/ \E ok \in BOOLEAN, message \in DetectorErrors : DetectorDone(ok, message)
    \/ \E dets \in DetectionLists : OnFaceResults(dets)
    \/ Tick(MaxTicks, FrameSteps)

SpecCamera == Init /\ [][NextCamera]_vars

------------------------------------------------------------------------------
(* Properties *)

\* A frustum edge projected from the eye back onto the plane z = 0:
\* eye + edge * (eyeDistance / nearClip), in units of 1 / (EyeUnit * NearClipNum)
ProjectedOntoScreen(eye, edge) == eye * NearClipNum + edge

\* A screen coordinate (in LEN units) in units of 1 / (EyeUnit * NearClipNum)
OnScreen(coordinate) == coordinate * POS * MILLI * NearClipNum

\* The decimal a / b as a frustum edge
FrustumDecimal(a, b) == a * ((LEN * MILLI * NearClipDen * eyeDistance) \div b) * POS

\* The decimal a / b as an eye coordinate
EyeDecimal(a, b) == a * ((LEN * MILLI) \div b) * POS

Between(a, x, b) == (a <= x /\ x <= b) \/ (b <= x /\ x <= a)

\* C1 (under SpecSolver): screen lock.  For every position, screen extent
\* and strength, each edge of the computed frustum, projected from the eye
\* at (eyeX, eyeY, eyeDistance) onto z = 0, lands on the screen rectangle:
\* eyeX + left * (eyeDistance / nearClip) = -halfWidth, and likewise for
\* right, bottom and top.
ScreenLock ==
    threeCamera.defined =>
        /\ ProjectedOntoScreen(threeCamera.posX, threeCamera.left)
              = OnScreen(0 - boxGroup.halfWidth)
        /\ ProjectedOntoScreen(threeCamera.posX, threeCamera.right)
              = OnScreen(boxGroup.halfWidth)
        /\ ProjectedOntoScreen(threeCamera.posY, threeCamera.bottom)
              = OnScreen(0 - boxGroup.halfHeight)
        /\ ProjectedOntoScreen(threeCamera.posY, threeCamera.top)
              = OnScreen(boxGroup.halfHeight)

\* The solver has run with the eye displaced on both axes
ScreenLockWitness ==
    /\ threeCamera.defined
    /\ threeCamera.posX # 0
    /\ threeCamera.posY # 0
    /\ parallaxStrength = StrengthMax

\* C2 (under SpecTrack): in every state reached by detections with centres
\* in [0,1], control clicks and render ticks, the frustum handed to
\* makePerspective has left < right and bottom < top.
FrustumOrdered ==
    threeCamera.defined =>
        /\ threeCamera.left < threeCamera.right
        /\ threeCamera.bottom < threeCamera.top

\* A tick has put the eye beyond the screen's edge: both left and right are
\* on the same side of the axis
FrustumOrderedWitness ==
    /\ threeCamera.defined
    /\ ticks > 0
    /\ threeCamera.left > 0

\* C3 (under SpecTrack): bounded smoothing.  Starting from current = (0,0),
\* after any ticks, detections with centres in [0,1] and smoothing clicks,
\* currentX and currentY stay within [-1, 1].
BoundedSmoothing ==
    /\ 0 - POS <= currentX /\ currentX <= POS
    /\ 0 - POS <= currentY /\ currentY <= POS

\* Two ticks at a clicked smoothing factor have carried current more than
\* half of the way to a target at the end of the range
BoundedSmoothingWitness ==
    /\ ticks >= 2
    /\ clicks > 0
    /\ Abs(targetX) = POS
    /\ 2 * Abs(currentX) > POS

\* C4 as stated (under SpecSolver): with the screen and the strength fixed,
\* increasing current.x from 0 to positive values decreases right and
\* increases |left|.
MirroredSignAsStated ==
    [][ (threeCamera.defined /\ threeCamera'.defined
           /\ 0 <= currentX /\ currentX < currentX')
        => /\ threeCamera'.right < threeCamera.right
           /\ Abs(threeCamera'.left) > Abs(threeCamera.left) ]_vars

\* C4 amended (under SpecSolver): with the screen and the strength fixed,
\* increasing current.x from 0 to positive values increases right and
\* increases left by the same amount; |left| decreases as long as
\* current.x * parallaxStrength <= 1.
MirroredSign ==
    [][ (threeCamera.defined /\ threeCamera'.defined
           /\ 0 <= currentX /\ currentX < currentX')
        => /\ threeCamera'.right > threeCamera.right
           /\ threeCamera'.left > threeCamera.left
           /\ threeCamera'.right - threeCamera.right
                = threeCamera'.left - threeCamera.left
           /\ (currentX' * parallaxStrength <= POS * MILLI
                 => Abs(threeCamera'.left) < Abs(threeCamera.left)) ]_vars

\* The solver has run at a positive current.x
MirroredSignWitness ==
    /\ threeCamera.defined
    /\ currentX > 0
    /\ threeCamera.right > OnScreen(boxGroup.halfWidth)

\* C5 (under SpecSolver): centering.  At current = (0,0) the frustum is
\* symmetric, left = -right = -halfWidth * nearClip / eyeDistance and
\* bottom = -top = -halfHeight * nearClip / eyeDistance, and the eye is at
\* (0, 0, eyeDistance), for every strength.
Centering ==
    (threeCamera.defined /\ currentX = 0 /\ currentY = 0) =>
        /\ threeCamera.left = 0 - threeCamera.right
        /\ threeCamera.right = OnScreen(boxGroup.halfWidth)
        /\ threeCamera.bottom = 0 - threeCamera.top
        /\ threeCamera.top = OnScreen(boxGroup.halfHeight)
        /\ threeCamera.posX = 0
        /\ threeCamera.posY = 0
        /\ threeCamera.posZ = eyeDistance

\* The solver has run at the centre with the strength at its maximum
CenteringWitness ==
    /\ threeCamera.defined
    /\ currentX = 0
    /\ currentY = 0
    /\ parallaxStrength = StrengthMax
    /\ threeCamera.right > 0

\* C6 (under SpecSolver): with halfWidth 2.0, halfHeight 1.125,
\* eyeDistance 5, nearClip 0.1 and strength 0.4, current = (0,0) gives
\* left -0.04, right 0.04, bottom -0.0225, top 0.0225, and current = (1,0)
\* gives eyeX -0.8, left -0.024, right 0.056.
EndToEndValues ==
    (threeCamera.defined /\ boxGroup = ExampleBox /\ parallaxStrength = 400) =>
        /\ (currentX = 0 /\ currentY = 0) =>
              /\ threeCamera.left = FrustumDecimal(0 - 4, 100)
              /\ threeCamera.right = FrustumDecimal(4, 100)
              /\ threeCamera.bottom = FrustumDecimal(0 - 225, 10000)
              /\ threeCamera.top = FrustumDecimal(225, 10000)
        /\ (currentX = POS /\ currentY = 0) =>
              /\ threeCamera.posX = EyeDecimal(0 - 8, 10)
              /\ threeCamera.left = FrustumDecimal(0 - 24, 1000)
              /\ threeCamera.right = FrustumDecimal(56, 1000)

\* The solver has run on the example's screen at current = (1,0)
EndToEndValuesWitness ==
    /\ threeCamera.defined
    /\ boxGroup = ExampleBox
    /\ parallaxStrength = 400
    /\ currentX = POS
    /\ currentY = 0
    /\ threeCamera.posX < 0

\* C7 (under SpecHold): no overshoot.  For every factor the smoothing
\* control can hold, a tick leaves the new current between the old current
\* and the target on each axis; with the target held, |target - current|
\* never grows and current never changes side relative to the target.
NoOvershoot ==
    [][ /\ Between(currentX, currentX', targetX)
        /\ Between(currentY, currentY', targetY)
        /\ Abs(targetX - currentX') <= Abs(targetX - currentX)
        /\ Abs(targetY - currentY') <= Abs(targetY - currentY)
        /\ (currentX <= targetX => currentX' <= targetX)
        /\ (currentX >= targetX => currentX' >= targetX)
        /\ (currentY <= targetY => currentY' <= targetY)
        /\ (currentY >= targetY => currentY' >= targetY) ]_vars

\* Ticks at the largest factor have moved current on both axes without
\* reaching the target
NoOvershootWitness ==
    /\ ticks >= 2
    /\ smoothingAmount = SmoothingMax
    /\ currentX # 0 /\ currentX # targetX
    /\ targetY < 0 /\ currentY > targetY /\ currentY < 0

TargetOnlyByFace ==
    /\ [](lastSample = NoSample => (targetX = 0 /\ targetY = 0))
    /\ [][ (targetX' # targetX \/ targetY' # targetY)
           => (pending' = pending + 1 /\ lastSample' \in Centers) ]_vars

\* A detection with a face has moved the target
TargetOnlyByFaceWitness ==
    /\ lastSample # NoSample
    /\ pending > 0
    /\ targetX # 0
    /\ targetY # 0

\* C10 (under Spec): last write wins.  When several detections with a face
\* arrive between two ticks, the next tick smooths toward the target of
\* the last of them alone.
LastWriteWins ==
    [][ (ticks' = ticks + 1 /\ pending >= 1)
        => /\ currentX' = Smooth(currentX, Normalize(lastSample[1]), smoothingAmount)
           /\ currentY' = Smooth(currentY, Normalize(lastSample[2]), smoothingAmount)
      ]_vars

\* A tick has consumed two or more detections and moved current
LastWriteWinsWitness ==
    /\ ticks >= 1
    /\ tickSamples >= 2
    /\ currentX # 0
    /\ currentY # 0

\* C11 (under Spec): per-tick ordering.  In every call of animate, the
\* first one made by init included, current is advanced by one smoothing
\* step from its value before the tick, the solver then computes the
\* camera from the advanced position, and the camera handed to
\* renderer.render is that camera.
TickOrder ==
    [][ ticks' = ticks + 1
        => /\ currentX' = currentX + RoundDiv((targetX - currentX) * smoothingAmount, MILLI)
           /\ currentY' = currentY + RoundDiv((targetY - currentY) * smoothingAmount, MILLI)
           /\ threeCamera' = UpdateOffAxisProjection(NoCamera, boxGroup', currentX',
                                                     currentY', parallaxStrength)
           /\ rendered'.defined
           /\ rendered' = threeCamera' ]_vars

\* A second tick has moved current and rendered a camera off the axis
TickOrderWitness ==
    /\ ticks >= 2
    /\ currentX # 0
    /\ currentX # targetX
    /\ rendered.defined
    /\ rendered.posX = (0 - currentX) * boxGroup.halfWidth * parallaxStrength
    /\ rendered.posX # 0

\* C12 (under Spec): the first call of animate is made only after
\* initCamera and initFaceDetection have both resolved and initThreeJS has
\* run; before that no tick happens and no frame callback is queued.
StartsAfterSetup ==
    /\ []( (ticks > 0 \/ rafPending \/ rendered.defined)
           => (pc = "Running" /\ videoStream /\ cameraStarted /\ boxGroup.defined) )
    /\ [][ (pc # "Running" /\ pc' = "Running")
           => /\ pc = "Detector"
              /\ videoStream
              /\ cameraStarted'
              /\ boxGroup'.defined
              /\ ticks = 0
              /\ ticks' = 1
              /\ rafPending' ]_vars

\* The program runs, and a detection arrived while the detector was still
\* being set up
StartsAfterSetupWitness ==
    /\ pc = "Running"
    /\ ticks = 1
    /\ tickSamples > 0
    /\ videoStream
    /\ cameraStarted

\* C13 (under Spec): when initCamera or initFaceDetection fails, the
\* handler catches the error and sets the loading text to 'Error: '
\* followed by the error's message; animate is never called: no frame
\* callback is queued, no tick and no render happens, and current stays
\* (0,0).
FailureStops ==
    /\ []( pc = "Error" <=> initError # NoError )
    /\ []( initError # NoError
           => /\ initError \in (CameraErrors \cup DetectorErrors)
              /\ loadingText = <<"Error: ", initError>>
              /\ ~rafPending
              /\ ticks = 0
              /\ ~rendered.defined
              /\ currentX = 0
              /\ currentY = 0 )
    /\ [][ pc = "Error" => pc' = "Error" ]_vars

\* initFaceDetection has failed after a detection had moved the target
FailureStopsWitness ==
    /\ pc = "Error"
    /\ initError \in DetectorErrors
    /\ loadingText[1] = "Error: "
    /\ videoStream
    /\ targetX # 0

\* C14 (under SpecLoop): once animate has been called the program stays
\* running: every call of animate leaves a frame callback queued, a queued
\* callback is never withdrawn, and, the host running a queued callback
\* eventually, ticks occur again and again (every value of the tick count
\* modulo LoopTicks keeps recurring).
RunsForever ==
    /\ [](pc = "Running" => rafPending)
    /\ [][ rafPending => rafPending' ]_vars
    /\ [][ pc = "Running" => pc' = "Running" ]_vars
    /\ \A n \in 0..(LoopTicks - 1) : (pc = "Running") ~> (ticks = n)

\* The loop has run long enough to close a window of the FPS counter and
\* to carry current to a target it no longer moves toward
RunsForeverWitness ==
    /\ pc = "Running"
    /\ rafPending
    /\ currentFps > 0
    /\ targetX # 0
    /\ currentX = Smooth(currentX, targetX, smoothingAmount)

\* C15 (under SpecTrack): at every render call the camera's rotation is
\* (0,0,0) and its position is (eyeX, eyeY, eyeDistance), with
\* eyeX = -currentX * halfWidth * parallaxStrength and
\* eyeY = currentY * halfHeight * parallaxStrength taken at the tick's
\* position and the strength then set; no tick, detection or click changes
\* the rendered camera's rotation or its z.
RenderedPose ==
    /\ []( rendered.defined
           => (rendered.rotation = <<0, 0, 0>> /\ rendered.posZ = eyeDistance) )
    /\ [][ ticks' = ticks + 1
           => /\ rendered'.defined
              /\ rendered'.rotation = <<0, 0, 0>>
              /\ rendered'.posX = (0 - currentX') * boxGroup.halfWidth * parallaxStrength
              /\ rendered'.posY = currentY' * boxGroup.halfHeight * parallaxStrength
              /\ rendered'.posZ = eyeDistance ]_vars

\* A tick after a click has rendered with the eye displaced on both axes
RenderedPoseWitness ==
    /\ ticks >= 1
    /\ clicks > 0
    /\ rendered.defined
    /\ rendered.posX > 0
    /\ rendered.posY > 0
    /\ rendered.posZ = eyeDistance

\* C16 (under SpecFps): the FPS quotient is never taken over an empty
\* window: whenever animate divides by now - lastFpsUpdate, that difference
\* is at least 500, for clock readings any of FpsSteps apart (two equal
\* readings included), and currentFps is never the result of a division by
\* zero.
FpsNeverByZero ==
    /\ [](fpsDivisor # NoDivisor => fpsDivisor >= FpsInterval)
    /\ [](currentFps # Infinity)
    /\ [][ (fpsDivisor' # fpsDivisor \/ currentFps' # currentFps)
           => (fpsDivisor' >= FpsInterval /\ fpsDivisor' > 0) ]_vars

\* The quotient was taken over a window of exactly 500, and a later tick
\* read the same clock value as the tick before it
FpsNeverByZeroWitness ==
    /\ fpsDivisor = FpsInterval
    /\ currentFps > 0
    /\ frameCount > 0
    /\ sinceFpsUpdate = 0

\* C17 (under SpecControls): after any sequence of plus and minus clicks
\* smoothingAmount is within [0.01, 0.50], hence within (0, 1], and
\* parallaxStrength within [0.1, 2.0]; a click moves its setting by one
\* step, or to the nearer bound where the step would pass it, and leaves
\* the other setting alone.
ControlsClamped ==
    /\ []( /\ SmoothingMin <= smoothingAmount /\ smoothingAmount <= SmoothingMax
           /\ 0 < smoothingAmount /\ smoothingAmount <= MILLI
           /\ StrengthMin <= parallaxStrength /\ parallaxStrength <= StrengthMax )
    /\ [][ clicks' = clicks + 1
           => \/ /\ smoothingAmount' = smoothingAmount
                 /\ parallaxStrength' \in
                      { Min(StrengthMax, parallaxStrength + StrengthStep),
                        Max(StrengthMin, parallaxStrength - StrengthStep) }
              \/ /\ parallaxStrength' = parallaxStrength
                 /\ smoothingAmount' \in
                      { Min(SmoothingMax, smoothingAmount + SmoothingStep),
                        Max(SmoothingMin, smoothingAmount - SmoothingStep) } ]_vars

\* The strength was clicked up to its maximum and then once more: one
\* click more than the steps from 0.20 to 2.0, the smoothing at its
\* initial value
ControlsClampedWitness ==
    /\ parallaxStrength = StrengthMax
    /\ smoothingAmount = InitSmoothing
    /\ clicks * StrengthStep = StrengthMax - InitStrength + StrengthStep

\* C18 (under Spec): current has a single writer.  currentX and currentY
\* change only in a tick, by that tick's smoothing step; a detection
\* callback, a control click and the steps of the start handler leave them
\* as they are, and the solver run by the tick leaves them at the values
\* the smoothing step produced.
SingleWriter ==
    /\ [][ (currentX' # currentX \/ currentY' # currentY)
           => /\ ticks' = ticks + 1
              /\ currentX' = Smooth(currentX, targetX, smoothingAmount)
              /\ currentY' = Smooth(currentY, targetY, smoothingAmount) ]_vars
    /\ [][ (pending' = pending + 1 \/ clicks' = clicks + 1 \/ ticks' = ticks)
           => (currentX' = currentX /\ currentY' = currentY) ]_vars

\* After a tick moved current, a detection and a click have arrived and
\* current still is where the tick left it, short of the new target
SingleWriterWitness ==
    /\ ticks >= 1
    /\ pending > 0
    /\ clicks > 0
    /\ currentX # 0
    /\ currentX # targetX
    /\ rendered.posX = (0 - currentX) * boxGroup.halfWidth * InitStrength
    /\ parallaxStrength # InitStrength

\* C19 (under Spec): a detection callback with one or more detections sets
\* the target to ((c.x - 0.5) * 2, (c.y - 0.5) * 2) for the box centre c of
\* the first detection, whatever detections follow it in the list; with
\* centres in [0,1] x [0,1] the target is always within [-1,1] x [-1,1].
FirstDetectionOnly ==
    /\ []( /\ 0 - POS <= targetX /\ targetX <= POS
           /\ 0 - POS <= targetY /\ targetY <= POS )
    /\ [][ \A dets \in DetectionLists :
             (Len(dets) > 0 /\ OnFaceResults(dets))
             => /\ CenterUnit * targetX' = (2 * dets[1][1] - CenterUnit) * POS
                /\ CenterUnit * targetY' = (2 * dets[1][2] - CenterUnit) * POS ]_vars

\* A callback with a face at a corner of the image has set the target to a
\* corner of the range
FirstDetectionOnlyWitness ==
    /\ lastSample = <<CenterUnit, CenterUnit>>
    /\ targetX = POS
    /\ targetY = POS
    /\ pending > 0

FetchFailed(response) == response.kind \in {"network", "status", "failure"}

\* C21 as stated (under SpecCounter): the session flag is written only
\* after a fetch that requested a hit returned a count; the hit parameter
\* is sent exactly when the flag is not yet set; at most one fetch is
\* issued per run of initCounter; and when the fetch fails the flag is not
\* written and the fallback count 10420 is displayed.
SessionFlagAsStated ==
    /\ [][ sessionCounted' # sessionCounted
           => /\ sessionCounted'
              /\ counterPc = "Fetching"
              /\ requestHit
              /\ lastResponse'.kind = "count" ]_vars
    /\ [][ fetches' = fetches + 1 => (requestHit' <=> ~sessionCounted) ]_vars
    /\ [](fetches <= 1)
    /\ [][ (counterPc = "Fetching" /\ counterPc' = "Done" /\ FetchFailed(lastResponse'))
           => /\ sessionCounted' = sessionCounted
              /\ (requestHit => ~sessionCounted')
              /\ counterText' = <<fallbackCount \div MILLI, fallbackCount % MILLI>> ]_vars

\* C21 amended (under SpecCounter): as stated, except that on a failed
\* fetch the fallback count 10420 is displayed if the page has an element
\* for the number; on a page without one nothing is displayed.
SessionFlag ==
    /\ [][ sessionCounted' # sessionCounted
           => /\ sessionCounted'
              /\ counterPc = "Fetching"
              /\ requestHit
              /\ lastResponse'.kind = "count" ]_vars
    /\ [][ fetches' = fetches + 1 => (requestHit' <=> ~sessionCounted) ]_vars
    /\ [](fetches <= 1)
    /\ [][ (counterPc = "Fetching" /\ counterPc' = "Done" /\ FetchFailed(lastResponse'))
           => /\ sessionCounted' = sessionCounted
              /\ (requestHit => ~sessionCounted')
              /\ (numberElement
                    => counterText' = <<fallbackCount \div MILLI, fallbackCount % MILLI>>)
              /\ (~numberElement => counterText' = NoText) ]_vars

\* On the second load of the page, after a first load whose fetch failed,
\* the fetch has again asked for a hit and failed: the session is still
\* not marked and the fallback is on display
SessionFlagWitness ==
    /\ pageLoads = 2
    /\ counterPc = "Done"
    /\ fetches = 1
    /\ requestHit
    /\ lastResponse.kind = "status"
    /\ ~sessionCounted
    /\ counterText = <<10, 420>>

\* C22 (under SpecCamera): initCamera passes its three constraint sets to
\* getUserMedia in the order of its list, one call at a time; the first
\* call that yields a stream ends the loop, and no call follows it; the
\* function fails only after all three calls have failed, and the error it
\* throws, which the start handler shows, is that of the third call.
CameraFallback ==
    /\ []( /\ Len(attempts) <= Len(constraints)
           /\ \A i \in 1..Len(attempts) :
                /\ attempts[i][1] = constraints[i]
                /\ attempts[i][2] \in CameraErrors )
    /\ []( pc = "Camera" => (constraintIndex = Len(attempts) + 1 /\ ~videoStream) )
    /\ [][ attempts' # attempts
           => \/ (videoStream' /\ attempts' = <<>>)
              \/ /\ Len(attempts') = Len(attempts) + 1
                 /\ SubSeq(attempts', 1, Len(attempts)) = attempts ]_vars
    /\ [][ (~videoStream /\ videoStream')
           => (pc = "Camera" /\ pc' = "Detector" /\ initError' = NoError) ]_vars
    /\ [][ videoStream => (videoStream' /\ attempts' = attempts) ]_vars
    /\ [][ (pc = "Camera" /\ pc' = "Error")
           => /\ Len(attempts') = Len(constraints)
              /\ ~videoStream'
              /\ initError' = attempts'[Len(constraints)][2]
              /\ loadingText' = <<"Error: ", attempts'[Len(constraints)][2]>> ]_vars

\* All three calls have failed, the first and the last with different
\* errors, and the handler shows the last one
CameraFallbackWitness ==
    /\ pc = "Error"
    /\ Len(attempts) = Len(constraints)
    /\ attempts[1][2] # attempts[Len(constraints)][2]
    /\ initError = attempts[Len(constraints)][2]
    /\ ~videoStream

====
